---- MODULE Spec2Model ----
(***************************************************************************)
(* Model of the zip-backed http.FileSystem of assets.go: the index built   *)
(* by newZipFS (files, dirs), zipFS.Open / zipFS.dirEntries, and the       *)
(* zipHTTPFile handle methods Read, Seek, Readdir, Stat and Close.         *)
(*                                                                         *)
(* A Go string is a sequence of one-character strings, so that path.Clean, *)
(* path.Dir, path.Base, path.Join and the strings.Trim* functions are      *)
(* computed character by character, as the library computes them.          *)
(***************************************************************************)
EXTENDS Integers, Sequences, FiniteSets, TLC

VARIABLES archive, idx, files, dirs, handles, ret

vars == <<archive, idx, files, dirs, handles, ret>>

-----------------------------------------------------------------------------
(* Bounds                                                                  *)

\* longest archive (number of members of r.File)
MaxEntries == 2

\* Readdir calls recorded per directory handle
MaxCalls == 3

\* largest reader position a Seek may set
MaxPos == 4

-----------------------------------------------------------------------------
(* package strings                                                         *)

HasPrefix(s, p) ==
  Len(s) >= Len(p) /\ SubSeq(s, 1, Len(p)) = p

HasSuffix(s, p) ==
  Len(s) >= Len(p) /\ SubSeq(s, Len(s) - Len(p) + 1, Len(s)) = p

TrimPrefix(s, p) ==
  IF HasPrefix(s, p) THEN SubSeq(s, Len(p) + 1, Len(s)) ELSE s

TrimSuffix(s, p) ==
  IF HasSuffix(s, p) THEN SubSeq(s, 1, Len(s) - Len(p)) ELSE s

\* strings.LastIndex(s, "/") + 1: the 1-based place of the last '/', 0 if none
LastSlash(s) ==
  LET at == {i \in 1..Len(s) : s[i] = "/"}
  IN  IF at = {} THEN 0 ELSE CHOOSE i \in at : \A j \in at : j <= i

-----------------------------------------------------------------------------
(* package path                                                            *)

\* the elements of a path between its separators (empty elements included)
RECURSIVE Segments(_)
Segments(s) ==
  LET at == {i \in 1..Len(s) : s[i] = "/"}
  IN  IF at = {} THEN <<s>>
      ELSE LET i == CHOOSE k \in at : \A j \in at : k <= j
           IN  <<SubSeq(s, 1, i - 1)>> \o Segments(SubSeq(s, i + 1, Len(s)))

\* the scan of path.Clean: empty and "." elements are dropped, ".." removes
\* the element before it, is dropped at the root of a rooted path and is
\* kept at the front of a relative one
RECURSIVE CleanScan(_, _, _)
CleanScan(segs, out, rooted) ==
  IF segs = <<>> THEN out
  ELSE LET s == Head(segs)
           rest == Tail(segs)
       IN  IF s = <<>> \/ s = <<".">> THEN CleanScan(rest, out, rooted)
           ELSE IF s = <<".", ".">>
           THEN IF out # <<>> /\ out[Len(out)] # <<".", ".">>
                THEN CleanScan(rest, SubSeq(out, 1, Len(out) - 1), rooted)
                ELSE IF rooted THEN CleanScan(rest, out, rooted)
                ELSE CleanScan(rest, Append(out, s), rooted)
           ELSE CleanScan(rest, Append(out, s), rooted)

RECURSIVE JoinSlash(_)
JoinSlash(segs) ==
  IF segs = <<>> THEN <<>>
  ELSE IF Len(segs) = 1 THEN segs[1]
  ELSE segs[1] \o <<"/">> \o JoinSlash(Tail(segs))

\* path.Clean
Clean(p) ==
  IF p = <<>> THEN <<".">>
  ELSE LET rooted == (p[1] = "/")
           body == JoinSlash(CleanScan(Segments(p), <<>>, rooted))
       IN  IF rooted THEN <<"/">> \o body
           ELSE IF body = <<>> THEN <<".">> ELSE body

\* path.Dir: Clean of everything up to and including the last '/'
PathDir(p) == Clean(SubSeq(p, 1, LastSlash(p)))

RECURSIVE StripSlashes(_)
StripSlashes(p) ==
  IF p # <<>> /\ p[Len(p)] = "/" THEN StripSlashes(SubSeq(p, 1, Len(p) - 1))
  ELSE p

\* path.Base
PathBase(p) ==
  IF p = <<>> THEN <<".">>
  ELSE LET q == StripSlashes(p)
           r == SubSeq(q, LastSlash(q) + 1, Len(q))
       IN  IF r = <<>> THEN <<"/">> ELSE r

\* path.Join of two elements
PathJoin(a, b) ==
  IF a = <<>> /\ b = <<>> THEN <<>>
  ELSE IF a = <<>> THEN Clean(b)
  ELSE Clean(a \o <<"/">> \o b)

-----------------------------------------------------------------------------
(* The archive: zip.Reader.File                                            *)

\* one member: its header name, FileInfo().IsDir() and its content
Member(n, d, c) == [Name |-> n, IsDir |-> d, Data |-> c]

\* the members an archive is drawn from; a name ending in '/' is a directory
Pool ==
  { Member(<<"x", "/", "y", "/", "z">>, FALSE, <<1, 2>>),
    Member(<<"x", "/", "y">>, FALSE, <<3>>),
    Member(<<"/", "x", "/", "z">>, FALSE, <<>>),
    Member(<<".">>, FALSE, <<4>>),
    Member(<<"x", "/">>, TRUE, <<>>),
    Member(<<"/">>, TRUE, <<>>) }

Archives == UNION {[1..n -> Pool] : n \in 0..MaxEntries}

\* the names Open is called with
Paths ==
  { <<>>, <<"/">>, <<".">>, <<".", "/">>,
    <<"x">>, <<"x", "/">>, <<"/", "x">>,
    <<"x", "/", "y">>, <<"x", "/", "y", "/">>, <<"/", "x", "/", "y", "/">>,
    <<"x", "/", "y", "/", "z">>, <<"x", "/", "z">>, <<"z">>, <<"y">>,
    <<"x", "/", ".", ".", "/", "x", "/", "y">> }

\* the arguments of Readdir, Read and Seek
Counts == -1..2

BufSizes == 0..2

Offsets == -1..2

\* io.SeekStart, io.SeekCurrent, io.SeekEnd
Whences == 0..2

\* the callers that hold a handle
Callers == {1}

-----------------------------------------------------------------------------
(* newZipFS                                                                *)

\* m[k] = v on a Go map
MapPut(m, k, v) == [x \in DOMAIN m \cup {k} |-> IF x = k THEN v ELSE m[x]]

\* m[k] on a map of slices: nil (empty) for an absent key
MapGet(m, k) == IF k \in DOMAIN m THEN m[k] ELSE <<>>

\* the normalisation of a member name
NormName(raw) == TrimPrefix(TrimPrefix(Clean(raw), <<".", "/">>), <<"/">>)

\* the key of dirs for a directory path of the walk
WalkKey(dir) ==
  IF dir # <<>> THEN TrimSuffix(TrimPrefix(dir, <<"/">>), <<"/">>) \o <<"/">>
  ELSE <<>>

\* Populate with the walk cut after the immediate parent
PopulateParentOnly(d, dir, name) ==
  MapPut(d, WalkKey(dir), Append(MapGet(d, WalkKey(dir)), PathBase(name)))

\* the for loop that populates the parent directories of the file `name`
RECURSIVE Populate(_, _, _)
Populate(d, dir, name) ==
  LET key == WalkKey(dir)
      d1 == MapPut(d, key, Append(MapGet(d, key), PathBase(name)))
  IN  IF dir = <<>> \/ dir = <<".">> \/ dir = <<"/">> THEN d1
      ELSE LET up == PathDir(dir)
           IN  Populate(d1, IF up = <<".">> THEN <<>> ELSE up, name)

\* the body of the loop over r.File, for the member f
AddMember(fs, ds, f) ==
  LET name == NormName(f.Name)
  IN  IF f.IsDir
      THEN [files |-> fs,
            dirs |-> MapPut(ds, TrimSuffix(name, <<"/">>) \o <<"/">>, <<>>)]
      ELSE LET dir == PathDir(name)
           IN  [files |-> MapPut(fs, name, f),
                dirs |-> Populate(ds, IF dir = <<".">> THEN <<>> ELSE dir, name)]

-----------------------------------------------------------------------------
(* os.FileInfo                                                             *)

\* f.FileHeader.FileInfo() of a member
HeaderInfo(f) == [name |-> PathBase(f.Name), isDir |-> f.IsDir, size |-> Len(f.Data)]

\* &zipFileInfo{name: n, isDir: true, size: 0}
DirInfo(n) == [name |-> n, isDir |-> TRUE, size |-> 0]

NoInfo == [name |-> <<>>, isDir |-> FALSE, size |-> 0 - 1]

-----------------------------------------------------------------------------
(* zipFS.dirEntries and zipFS.Open                                         *)

RECURSIVE EntriesOf(_, _, _)
EntriesOf(fs, dirKey, names) ==
  IF names = <<>> THEN <<>>
  ELSE LET n == Head(names)
           full == TrimPrefix(PathJoin(TrimSuffix(dirKey, <<"/">>), n), <<"/">>)
           one == IF full \in DOMAIN fs THEN HeaderInfo(fs[full]) ELSE DirInfo(n)
       IN  <<one>> \o EntriesOf(fs, dirKey, Tail(names))

dirEntries(fs, ds, dirKey) ==
  IF dirKey \notin DOMAIN ds THEN <<>> ELSE EntriesOf(fs, dirKey, ds[dirKey])

\* &zipHTTPFile{isDir: true, name: key, entries: z.dirEntries(key)}
\* rdr = -1 is the nil reader; fi is <<>> (nil) or <<info>>.
\* The g fields are history, not fields of the struct. gKey is the key of
\* files or dirs the handle was opened on. On a directory handle gCalls counts
\* the Readdir calls, gCounts is the set of their counts, gGot the pages they
\* returned, one after the other, up to the first empty page, gEmpty whether
\* a page was empty, and gDrainedAt the number of the first call that asked
\* for all that remained (0: none did). On a file handle gFrom is the offset
\* of the last Seek from the start, when it succeeded within the content and
\* no other Seek followed, and gAcc the bytes read since.
History(key) ==
  [gKey |-> key, gCalls |-> 0, gCounts |-> {}, gGot |-> <<>>, gEmpty |-> FALSE,
   gDrainedAt |-> 0, gFrom |-> 0 - 1, gAcc |-> <<>>]

NewDir(fs, ds, key) ==
  [isDir |-> TRUE, name |-> key, data |-> <<>>, rdr |-> 0 - 1, fi |-> <<>>,
   entries |-> dirEntries(fs, ds, key), entriesNil |-> FALSE] @@ History(key)

\* &zipHTTPFile{isDir: false, name: path.Base(name), data: buf.Bytes(), fi: ...}
NewFile(f, name) ==
  [isDir |-> FALSE, name |-> PathBase(name), data |-> f.Data, rdr |-> 0 - 1,
   fi |-> <<HeaderInfo(f)>>, entries |-> <<>>, entriesNil |-> TRUE] @@ History(name)

\* OpenName with the trailing separator kept
OpenNameKeepsSlash(path) ==
  LET name == TrimPrefix(Clean(path), <<"/">>)
  IN  IF HasSuffix(path, <<"/">>) /\ name \notin {<<>>, <<".">>}
      THEN name \o <<"/">> ELSE name

\* the normalisation of the name Open is called with
OpenName(path) == TrimPrefix(Clean(path), <<"/">>)

\* OpenF without the lookup of a directory named without its separator
OpenFNoDirFallback(fs, ds, path, ok) ==
  LET name == OpenName(path)
      dirKey == TrimSuffix(name, <<"/">>) \o <<"/">>
  IN  IF name = <<".">> \/ name = <<>>
      THEN [err |-> "nil", h |-> <<NewDir(fs, ds, <<>>)>>]
      ELSE IF HasSuffix(name, <<"/">>)
      THEN [err |-> "nil", h |-> <<NewDir(fs, ds, dirKey)>>]
      ELSE IF name \in DOMAIN fs
      THEN IF ok THEN [err |-> "nil", h |-> <<NewFile(fs[name], name)>>]
           ELSE [err |-> "ErrRead", h |-> <<>>]
      ELSE [err |-> "ErrNotExist", h |-> <<>>]

\* Open(path); ok says whether f.Open and io.Copy succeed on the member.
\* h is <<>> (nil) or <<handle>>.
OpenF(fs, ds, path, ok) ==
  LET name == OpenName(path)
      dirKey == TrimSuffix(name, <<"/">>) \o <<"/">>
  IN  IF name = <<".">> \/ name = <<>>
      THEN [err |-> "nil", h |-> <<NewDir(fs, ds, <<>>)>>]
      ELSE IF HasSuffix(name, <<"/">>)
      THEN [err |-> "nil", h |-> <<NewDir(fs, ds, dirKey)>>]
      ELSE IF name \in DOMAIN fs
      THEN IF ok THEN [err |-> "nil", h |-> <<NewFile(fs[name], name)>>]
           ELSE [err |-> "ErrRead", h |-> <<>>]
      ELSE IF dirKey \in DOMAIN ds
      THEN [err |-> "nil", h |-> <<NewDir(fs, ds, dirKey)>>]
      ELSE [err |-> "ErrNotExist", h |-> <<>>]

-----------------------------------------------------------------------------
(* bytes.Reader                                                            *)

Min(a, b) == IF a <= b THEN a ELSE b

\* (*bytes.Reader).Read into a buffer of n bytes, the reader at index i of s
ReaderRead(s, i, n) ==
  IF i >= Len(s) THEN [i |-> i, n |-> 0, err |-> "EOF", out |-> <<>>]
  ELSE LET m == Min(n, Len(s) - i)
       IN  [i |-> i + m, n |-> m, err |-> "nil", out |-> SubSeq(s, i + 1, i + m)]

\* (*bytes.Reader).Seek
ReaderSeek(s, i, offset, whence) ==
  IF whence \notin {0, 1, 2} THEN [i |-> i, n |-> 0, err |-> "ErrWhence"]
  ELSE LET abs == IF whence = 0 THEN offset
                  ELSE IF whence = 1 THEN i + offset
                  ELSE Len(s) + offset
       IN  IF abs < 0 THEN [i |-> i, n |-> 0, err |-> "ErrNegative"]
           ELSE [i |-> abs, n |-> abs, err |-> "nil"]

-----------------------------------------------------------------------------
(* zipHTTPFile                                                             *)

\* if f.rdr == nil { f.rdr = bytes.NewReader(f.data) }
WithReader(f) == IF f.rdr = 0 - 1 THEN [f EXCEPT !.rdr = 0] ELSE f

\* ReadF with a new reader made on every call
ReadFNewReader(f, n) ==
  IF f.isDir THEN [f |-> f, n |-> 0, err |-> "EOF", out |-> <<>>]
  ELSE LET r == ReaderRead(f.data, 0, n)
       IN  [f |-> [f EXCEPT !.rdr = r.i], n |-> r.n, err |-> r.err, out |-> r.out]

ReadF(f, n) ==
  IF f.isDir THEN [f |-> f, n |-> 0, err |-> "EOF", out |-> <<>>]
  ELSE LET g == WithReader(f)
           r == ReaderRead(g.data, g.rdr, n)
       IN  [f |-> [g EXCEPT !.rdr = r.i], n |-> r.n, err |-> r.err, out |-> r.out]

\* SeekF refusing a position past the end of the content
SeekFRefusesPastEnd(f, offset, whence) ==
  IF f.isDir THEN [f |-> f, n |-> 0, err |-> "EOF"]
  ELSE LET g == WithReader(f)
           r == ReaderSeek(g.data, g.rdr, offset, whence)
       IN  IF r.err = "nil" /\ r.i > Len(g.data)
           THEN [f |-> g, n |-> 0, err |-> "ErrInvalid"]
           ELSE [f |-> [g EXCEPT !.rdr = r.i], n |-> r.n, err |-> r.err]

SeekF(f, offset, whence) ==
  IF f.isDir THEN [f |-> f, n |-> 0, err |-> "EOF"]
  ELSE LET g == WithReader(f)
           r == ReaderSeek(g.data, g.rdr, offset, whence)
       IN  [f |-> [g EXCEPT !.rdr = r.i], n |-> r.n, err |-> r.err]

\* ReaddirF leaving the last record of the page it returns in the cursor
ReaddirFKeepsOne(f, count) ==
  IF ~f.isDir THEN [f |-> f, page |-> <<>>, err |-> "ErrInvalid"]
  ELSE IF f.entriesNil THEN [f |-> f, page |-> <<>>, err |-> "nil"]
  ELSE IF count <= 0 \/ count >= Len(f.entries)
  THEN [f |-> f, page |-> f.entries, err |-> "nil"]
  ELSE [f |-> [f EXCEPT !.entries = SubSeq(f.entries, count, Len(f.entries))],
        page |-> SubSeq(f.entries, 1, count), err |-> "nil"]

ReaddirF(f, count) ==
  IF ~f.isDir THEN [f |-> f, page |-> <<>>, err |-> "ErrInvalid"]
  ELSE IF f.entriesNil THEN [f |-> f, page |-> <<>>, err |-> "nil"]
  ELSE IF count <= 0 \/ count >= Len(f.entries)
  THEN [f |-> f, page |-> f.entries, err |-> "nil"]
  ELSE [f |-> [f EXCEPT !.entries = SubSeq(f.entries, count + 1, Len(f.entries))],
        page |-> SubSeq(f.entries, 1, count), err |-> "nil"]

\* StatF reporting the number of records left in the listing as the size
StatFCountsEntries(f) ==
  IF f.isDir
  THEN [name |-> PathBase(TrimSuffix(f.name, <<"/">>)), isDir |-> TRUE,
        size |-> Len(f.entries)]
  ELSE IF f.fi # <<>> THEN f.fi[1]
  ELSE [name |-> f.name, isDir |-> FALSE, size |-> Len(f.data)]

StatF(f) ==
  IF f.isDir THEN DirInfo(PathBase(TrimSuffix(f.name, <<"/">>)))
  ELSE IF f.fi # <<>> THEN f.fi[1]
  ELSE [name |-> f.name, isDir |-> FALSE, size |-> Len(f.data)]

-----------------------------------------------------------------------------
(* The state machine                                                       *)

\* what the last call returned: n and out of Read, n of Seek, page of
\* Readdir, info of Stat
Ret(op, h, err, n, out, page, info) ==
  [op |-> op, h |-> h, err |-> err, n |-> n, out |-> out, page |-> page,
   info |-> info]

built == idx > Len(archive)

Init ==
  /\ archive \in Archives
  /\ idx = 1
  /\ files = <<>>
  /\ dirs = <<>>
  /\ handles = <<>>
  /\ ret = Ret("none", 0, "nil", 0, <<>>, <<>>, NoInfo)

\* one iteration of the loop of newZipFS
Build ==
  /\ idx <= Len(archive)
  /\ LET z == AddMember(files, dirs, archive[idx])
     IN  files' = z.files /\ dirs' = z.dirs
  /\ idx' = idx + 1
  /\ ret' = Ret("Build", 0, "nil", 0, <<>>, <<>>, NoInfo)
  /\ UNCHANGED <<archive, handles>>

\* Open remembering a name it did not find as an empty directory of the index
OpenRemembersMisses(h, path, ok) ==
  /\ built
  /\ h \notin DOMAIN handles
  /\ LET r == OpenF(files, dirs, path, ok)
     IN  /\ handles' = IF r.h = <<>> THEN handles ELSE MapPut(handles, h, r.h[1])
         /\ dirs' = IF r.err = "ErrNotExist"
                    THEN MapPut(dirs, OpenName(path) \o <<"/">>, <<>>) ELSE dirs
         /\ ret' = Ret("Open", h, r.err, 0, path, <<>>, NoInfo)
  /\ UNCHANGED <<archive, idx, files>>

\* a caller opens one handle and then works on it
Open(h, path, ok) ==
  /\ built
  /\ h \notin DOMAIN handles
  /\ LET r == OpenF(files, dirs, path, ok)
     IN  /\ handles' = IF r.h = <<>> THEN handles ELSE MapPut(handles, h, r.h[1])
         /\ ret' = Ret("Open", h, r.err, 0, path, <<>>, NoInfo)
  /\ UNCHANGED <<archive, idx, files, dirs>>

Read(h, n) ==
  /\ h \in DOMAIN handles
  /\ LET f == handles[h]
         r == ReadF(f, n)
         g == IF f.gFrom >= 0 THEN [r.f EXCEPT !.gAcc = f.gAcc \o r.out] ELSE r.f
     IN  /\ handles' = [handles EXCEPT ![h] = g]
         /\ ret' = Ret("Read", h, r.err, r.n, r.out, <<>>, NoInfo)
  /\ UNCHANGED <<archive, idx, files, dirs>>

Seek(h, offset, whence) ==
  /\ h \in DOMAIN handles
  /\ LET f == handles[h]
         r == SeekF(f, offset, whence)
         from == IF ~f.isDir /\ whence = 0 /\ r.err = "nil" /\ offset <= Len(f.data)
                 THEN offset ELSE 0 - 1
     IN  /\ r.f.rdr <= MaxPos
         /\ handles' = [handles EXCEPT ![h] = [r.f EXCEPT !.gFrom = from, !.gAcc = <<>>]]
         /\ ret' = Ret("Seek", h, r.err, r.n, <<>>, <<>>, NoInfo)
  /\ UNCHANGED <<archive, idx, files, dirs>>

\* Readdir with one listing cursor per directory, shared by the handles on it
ReaddirSharedCursor(h, count) ==
  /\ h \in DOMAIN handles
  /\ handles[h].gCalls < MaxCalls
  /\ LET f == handles[h]
         r == ReaddirF(f, count)
     IN  /\ handles' = [g \in DOMAIN handles |->
                          IF handles[g].isDir /\ f.isDir /\ handles[g].name = f.name
                          THEN [handles[g] EXCEPT !.entries = r.f.entries,
                                  !.gCalls = IF g = h THEN f.gCalls + 1 ELSE @]
                          ELSE handles[g]]
         /\ ret' = Ret("Readdir", h, r.err, 0, <<>>, r.page, NoInfo)
  /\ UNCHANGED <<archive, idx, files, dirs>>

Readdir(h, count) ==
  /\ h \in DOMAIN handles
  /\ handles[h].gCalls < MaxCalls
  /\ LET f == handles[h]
         r == ReaddirF(f, count)
         g == IF f.isDir
              THEN [r.f EXCEPT !.gCalls = f.gCalls + 1,
                               !.gCounts = f.gCounts \cup {count},
                               !.gGot = IF f.gEmpty THEN f.gGot
                                        ELSE f.gGot \o r.page,
                               !.gEmpty = f.gEmpty \/ r.page = <<>>,
                               !.gDrainedAt =
                                   IF f.gDrainedAt = 0
                                      /\ (count <= 0 \/ count >= Len(f.entries))
                                   THEN f.gCalls + 1 ELSE f.gDrainedAt]
              ELSE r.f
     IN  /\ handles' = [handles EXCEPT ![h] = g]
         /\ ret' = Ret("Readdir", h, r.err, 0, <<>>, r.page, NoInfo)
  /\ UNCHANGED <<archive, idx, files, dirs>>

Stat(h) ==
  /\ h \in DOMAIN handles
  /\ ret' = Ret("Stat", h, "nil", 0, <<>>, <<>>, StatF(handles[h]))
  /\ UNCHANGED <<archive, idx, files, dirs, handles>>

Close(h) ==
  /\ h \in DOMAIN handles
  /\ ret' = Ret("Close", h, "nil", 0, <<>>, <<>>, NoInfo)
  /\ UNCHANGED <<archive, idx, files, dirs, handles>>

Next ==
  \/ Build
  \/ \E h \in Callers, p \in Paths, ok \in BOOLEAN : Open(h, p, ok)
  \/ \E h \in Callers, n \in BufSizes : Read(h, n)
  \/ \E h \in Callers, o \in Offsets, w \in Whences : Seek(h, o, w)
  \/ \E h \in Callers, c \in Counts : Readdir(h, c)
  \/ \E h \in Callers : Stat(h)
  \/ \E h \in Callers : Close(h)

Spec == Init /\ [][Next]_vars

\* Two callers, each with a handle of its own, work on one index at the same
\* time. Every method is one step: Open only reads files and dirs, and the
\* other methods touch nothing but the fields of their own handle.
ConcCallers == {1, 2}

ConcArchives ==
  { << Member(<<"x", "/", "y", "/", "z">>, FALSE, <<1, 2>>),
       Member(<<"x", "/", "y">>, FALSE, <<3>>) >> }

ConcPaths == { <<>>, <<"x">>, <<"x", "/", "y">>, <<"z">> }

ConcCounts == 0..2

ConcBufSizes == 1..2

ConcOffsets == 0..1

ConcWhences == 0..1

InitConcurrent ==
  /\ archive \in ConcArchives
  /\ idx = 1
  /\ files = <<>>
  /\ dirs = <<>>
  /\ handles = <<>>
  /\ ret = Ret("none", 0, "nil", 0, <<>>, <<>>, NoInfo)

NextConcurrent ==
  \/ Build
  \/ \E h \in ConcCallers, p \in ConcPaths, ok \in BOOLEAN : Open(h, p, ok)
  \/ \E h \in ConcCallers, n \in ConcBufSizes : Read(h, n)
  \/ \E h \in ConcCallers, o \in ConcOffsets, w \in ConcWhences : Seek(h, o, w)
  \/ \E h \in ConcCallers, c \in ConcCounts : Readdir(h, c)
  \/ \E h \in ConcCallers : Stat(h)
  \/ \E h \in ConcCallers : Close(h)

SpecConcurrent == InitConcurrent /\ [][NextConcurrent]_vars

-----------------------------------------------------------------------------
(* Properties                                                              *)

IsPrefix(a, b) == Len(a) <= Len(b) /\ SubSeq(b, 1, Len(a)) = a

\* the page a single Readdir(0) returns on a fresh handle opened on the
\* directory of the handle f
ListAll(f) == ReaddirF(NewDir(files, dirs, f.name), 0).page

\* the directory handles on which every Readdir call so far used one k > 0
FixedCount(f) == f.isDir /\ \E k \in Counts : k > 0 /\ f.gCounts = {k}

\* C1: on a directory handle, repeated Readdir(k) calls with one fixed k > 0
\* reach an empty page after finitely many calls, and the pages returned
\* before it, one after the other, are the page of a single Readdir(0) on a
\* fresh handle on the same directory. As a property of every state: the
\* pages returned so far are a prefix of that page, they are all of it once
\* an empty page came, and an empty page has come once more calls were made
\* than the directory has records.
C1_PagesMakeTheListing ==
  \A h \in DOMAIN handles :
    LET f == handles[h]
    IN  FixedCount(f) =>
          /\ IsPrefix(f.gGot, ListAll(f))
          /\ f.gEmpty => f.gGot = ListAll(f)
          /\ f.gCalls > Len(ListAll(f)) => f.gEmpty

\* C2: a Readdir(count) call with count <= 0 or count >= the number of
\* remaining records returns all remaining records and leaves the cursor
\* empty, and every later Readdir call returns an empty page and no error.
C2_DrainEmptiesTheCursor ==
  \A h \in DOMAIN handles :
    LET f == handles[h]
    IN  (f.isDir /\ f.gDrainedAt > 0) =>
          /\ f.entries = <<>>
          /\ f.gDrainedAt = f.gCalls => f.gGot = ListAll(f)
          /\ (ret.op = "Readdir" /\ ret.h = h /\ f.gCalls > f.gDrainedAt)
               => (ret.page = <<>> /\ ret.err = "nil")

\* the outcome of the Open call that was made last, on the name ret.out
Opened == ret.op = "Open"

OpenedHandle == ret.err = "nil" /\ ret.h \in DOMAIN handles

OpenedDir == OpenedHandle /\ handles[ret.h].isDir

OpenedFile == OpenedHandle /\ ~handles[ret.h].isDir

\* a File handle, or the member's content could not be read
OpenedAsFile == OpenedFile \/ ret.err = "ErrRead"

\* the proper ancestor directories of the path k, the root "" among them,
\* each without a trailing separator
Ancestors(k) ==
  LET segs == Segments(k)
  IN  {JoinSlash(SubSeq(segs, 1, i)) : i \in 0..(Len(segs) - 1)}

\* the two spellings of a directory: without and with the trailing separator
Spellings(d) == {d, d \o <<"/">>}

Children(d) == {dirs[d][i] : i \in 1..Len(dirs[d])}

\* C4: after the build a file's base name is a child of its immediate parent
\* only and every ancestor directory is a child, under its own name, of its
\* own parent: the archive holding only x/y/z gives the root the single child
\* x, x/ the single child y and x/y/ the single child z, and the archive
\* holding only x/y gives the root the child x and x/ the child y.
C4_ChildChains ==
  built =>
    /\ \A k \in DOMAIN files : \A d \in Ancestors(k) :
         d # <<>> =>
           /\ WalkKey(PathDir(d)) \in DOMAIN dirs
           /\ PathBase(d) \in Children(IF PathDir(d) = <<".">> THEN <<>>
                                       ELSE WalkKey(PathDir(d)))
    /\ archive = <<Member(<<"x", "/", "y", "/", "z">>, FALSE, <<1, 2>>)>> =>
         /\ dirs[<<>>] = <<<<"x">>>>
         /\ dirs[<<"x", "/">>] = <<<<"y">>>>
         /\ dirs[<<"x", "/", "y", "/">>] = <<<<"z">>>>
    /\ archive = <<Member(<<"x", "/", "y">>, FALSE, <<3>>)>> =>
         /\ dirs[<<>>] = <<<<"x">>>>
         /\ dirs[<<"x", "/">>] = <<<<"y">>>>

\* C5: after the build, for every key of files every ancestor directory key
\* of it, the root included, is a key of dirs, and the file's base name is
\* among the children of its immediate parent directory.
C5_AncestorsIndexed ==
  built =>
    \A k \in DOMAIN files :
      /\ \A d \in Ancestors(k) : WalkKey(d) \in DOMAIN dirs
      /\ LET parent == IF LastSlash(k) = 0 THEN <<>> ELSE SubSeq(k, 1, LastSlash(k))
         IN  parent \in DOMAIN dirs /\ PathBase(k) \in Children(parent)

\* C6: Open of a name that ends with '/' and is not the root yields a
\* Directory handle if the name, with one trailing '/', is a key of dirs, and
\* the not-exist error otherwise; it never yields a File handle. (A call
\* that fails to read a member's content is left aside.)
C6_TrailingSeparatorIsDirectory ==
  (/\ Opened /\ ret.err # "ErrRead"
   /\ HasSuffix(ret.out, <<"/">>)
   /\ OpenName(ret.out) \notin {<<>>, <<".">>}) =>
    /\ ~OpenedFile
    /\ IF OpenName(ret.out) \o <<"/">> \in DOMAIN dirs
       THEN OpenedDir
       ELSE ret.err = "ErrNotExist"

\* the other spelling of a directory name
OtherSpelling(p) ==
  IF HasSuffix(p, <<"/">>) THEN TrimSuffix(p, <<"/">>) ELSE p \o <<"/">>

\* C7: for every key d of dirs, Open of d without its trailing separator and
\* Open of d with it give the same classification, and handles with the same
\* Stat name and the same listing: the handle an Open of one spelling gave is
\* the one an Open of the other spelling gives.
C7_SpellingsAgree ==
  (Opened /\ ret.err # "ErrRead") =>
    \A d \in DOMAIN dirs :
      ret.out \in Spellings(TrimSuffix(d, <<"/">>)) =>
        LET other == OpenF(files, dirs, OtherSpelling(ret.out), TRUE)
        IN  /\ other.err = ret.err
            /\ OpenedHandle =>
                 /\ other.h[1].isDir = handles[ret.h].isDir
                 /\ StatF(other.h[1]).name = StatF(handles[ret.h]).name
                 /\ ReaddirF(other.h[1], 0) .page = ReaddirF(handles[ret.h], 0).page
                 /\ other.h[1].entries = handles[ret.h].entries

\* C7's case: a directory of the index is opened by its key, a file being
\* stored under the same path without the separator
C7_Witness ==
  /\ Opened /\ OpenedHandle
  /\ ret.out = <<"x", "/", "y", "/">>
  /\ ret.out \in DOMAIN dirs
  /\ <<"x", "/", "y">> \in DOMAIN files

\* C8: Open returns the not-exist error and no handle exactly when the
\* normalised name is not the root, is not a key of files, and with a '/'
\* after it is not a key of dirs; in every other case it returns a handle,
\* and the only other failure is that of reading a member's content.
C8_NotFoundExactly ==
  Opened =>
    LET name == OpenName(ret.out)
        absent == /\ name \notin {<<>>, <<".">>}
                  /\ name \notin DOMAIN files
                  /\ name \o <<"/">> \notin DOMAIN dirs
    IN  /\ ret.err = "ErrNotExist" <=> absent
        /\ ret.err # "nil" => ret.h \notin DOMAIN handles
        /\ ~absent =>
             \/ OpenedHandle
             \/ ret.err = "ErrRead" /\ name \in DOMAIN files

\* C8's case: a name that is in neither map, in an index that holds a file
\* beside it
C8_Witness ==
  /\ Opened /\ ret.err = "ErrNotExist"
  /\ ret.out = <<"x", "/", "z">>
  /\ <<"x", "/", "y">> \in DOMAIN files

\* the reader's position on a file handle: 0 until the reader is made
Pos(f) == IF f.rdr = 0 - 1 THEN 0 ELSE f.rdr

\* C9: on a file handle opened on a member of content b, after any earlier
\* Read and Seek calls, Seek(o, start) with 0 <= o <= len(b) followed by Reads
\* until end-of-data returns exactly b[o:]: the bytes read since that Seek
\* are always a prefix of b[o:], and are all of it when a Read returns
\* end-of-data.
C9_SeekThenReadGivesTheTail ==
  \A h \in DOMAIN handles :
    LET f == handles[h]
        b == files[f.gKey].Data
        tail == SubSeq(b, f.gFrom + 1, Len(b))
    IN  (~f.isDir /\ f.gFrom >= 0) =>
          /\ IsPrefix(f.gAcc, tail)
          /\ (ret.op = "Read" /\ ret.h = h /\ ret.err = "EOF") => f.gAcc = tail

\* C9's case: after earlier reads, a Seek to offset 1 of a content of two
\* bytes and Reads up to end-of-data
C9_Witness ==
  \E h \in DOMAIN handles :
    /\ ~handles[h].isDir
    /\ handles[h].data = <<1, 2>>
    /\ handles[h].gFrom = 1
    /\ handles[h].gAcc = <<2>>
    /\ ret.op = "Read" /\ ret.h = h /\ ret.err = "EOF"

\* the position a Seek asks for
Target(f, offset, whence) ==
  IF whence = 0 THEN offset
  ELSE IF whence = 1 THEN Pos(f) + offset
  ELSE Len(f.data) + offset

\* C10: a Seek on a file handle from the start, the current position or the
\* end fails exactly when the position it asks for is negative, and then
\* leaves the cursor where it was; a Seek to a position past the end
\* succeeds, and a Read made with the cursor past the end returns zero bytes
\* and end-of-data.
C10_SeekFailsOnlyBelowZero ==
  [][ /\ \A h \in DOMAIN handles, o \in Offsets, w \in Whences :
           (ret'.op = "Seek" /\ ~handles[h].isDir /\ Seek(h, o, w)) =>
             LET t == Target(handles[h], o, w)
             IN  /\ ret'.err # "nil" <=> t < 0
                 /\ t < 0 => Pos(handles'[h]) = Pos(handles[h])
                 /\ t >= 0 => (ret'.n = t /\ Pos(handles'[h]) = t)
      /\ \A h \in DOMAIN handles, n \in BufSizes :
           (/\ ret'.op = "Read" /\ ~handles[h].isDir
            /\ Pos(handles[h]) > Len(handles[h].data)
            /\ Read(h, n)) =>
             (ret'.n = 0 /\ ret'.out = <<>> /\ ret'.err = "EOF")
    ]_vars

\* C10's case: with the cursor past the end, where an earlier Seek put it, a
\* Seek to a negative position has failed and left it there
C10_Witness ==
  \E h \in DOMAIN handles :
    /\ ~handles[h].isDir
    /\ Pos(handles[h]) > Len(handles[h].data)
    /\ ret.op = "Seek" /\ ret.h = h /\ ret.err = "ErrNegative"

\* C11: Read and Seek on a directory handle each fail with an invalid-
\* operation error, one that can be told from the end-of-data result of a
\* file handle; they never return the zero-bytes end-of-data outcome.
C11_DirectoryReadSeekInvalid ==
  (ret.op \in {"Read", "Seek"} /\ ret.h \in DOMAIN handles /\ handles[ret.h].isDir) =>
    ret.err \notin {"nil", "EOF"}

\* C12: once the build has returned, no step of any caller (Open, Read,
\* Seek, Readdir, Stat, Close, in any interleaving) changes files or dirs.
C12_IndexIsFrozen ==
  [][built => (files' = files /\ dirs' = dirs)]_vars

\* C12's case: two callers hold handles they have both worked on, one a
\* directory with part of its listing consumed, one a file read from
C12_Witness ==
  /\ built /\ files # <<>> /\ dirs # <<>>
  /\ DOMAIN handles = ConcCallers
  /\ handles[1].isDir /\ handles[1].gCalls > 0
  /\ Len(handles[1].entries) < Len(dirEntries(files, dirs, handles[1].name))
  /\ ~handles[2].isDir /\ handles[2].rdr > 0
  /\ ret.op = "Close"

\* C13: handles are isolated. A step of one caller leaves every other
\* caller's handle as it was, so what a handle returns is what it would
\* return had the other handle's calls never happened, also for two handles
\* on the same path; an Open that fails, with a read error or the not-exist
\* error, changes no handle and not the result of any later Open.
C13_HandlesAreIsolated ==
  [][ /\ \A g \in DOMAIN handles :
           ret'.h # g => (g \in DOMAIN handles' /\ handles'[g] = handles[g])
      /\ (ret'.op = "Open" /\ ret'.err # "nil") =>
           /\ handles' = handles
           /\ \A p \in ConcPaths, ok \in BOOLEAN :
                 OpenF(files', dirs', p, ok) = OpenF(files, dirs, p, ok)
    ]_vars

\* C13's case: two handles on the directory x/, one with part of its listing
\* consumed, the other still at the start
C13_Witness ==
  /\ DOMAIN handles = ConcCallers
  /\ handles[1].isDir /\ handles[2].isDir
  /\ handles[1].name = <<"x", "/">> /\ handles[2].name = <<"x", "/">>
  /\ handles[1].gCalls > 0
  /\ Len(handles[1].entries) < Len(handles[2].entries)
  /\ handles[2].gCalls = 0
  /\ ret.op = "Readdir" /\ ret.h = 1

\* the key of dirs an explicit directory member is recorded under
DirMemberKey(f) == TrimSuffix(NormName(f.Name), <<"/">>) \o <<"/">>

\* C14: during the build, the step for a member marked as a directory whose
\* key is already in dirs leaves dirs, that key's children and every other
\* key, and files unchanged.
C14_DirectoryEntryKeepsChildren ==
  [][ (/\ idx <= Len(archive)
       /\ archive[idx].IsDir
       /\ DirMemberKey(archive[idx]) \in DOMAIN dirs
       /\ Build) => (dirs' = dirs /\ files' = files)
    ]_vars

\* C15: after the build no directory's list of children holds the same name
\* more than once.
C15_NoDuplicateChildren ==
  built =>
    \A d \in DOMAIN dirs :
      \A i, j \in 1..Len(dirs[d]) : dirs[d][i] = dirs[d][j] => i = j

\* the listing a handle on the directory key had when it was opened
Snapshot(f) == dirEntries(files, dirs, f.name)

KeyBase(key) ==
  LET segs == Segments(TrimSuffix(key, <<"/">>))
  IN  IF key = <<>> THEN <<".">> ELSE segs[Len(segs)]

\* C17: Stat on a directory handle returns directory = true, size = 0 and
\* the base name of the directory key (the root name for the empty key),
\* and the same after any List, Read, Seek and Close calls on the handle,
\* however much of the listing was consumed.
C17_DirectoryStatIsStable ==
  \A h \in DOMAIN handles :
    LET f == handles[h]
        want == [name |-> KeyBase(f.gKey), isDir |-> TRUE, size |-> 0]
    IN  f.isDir =>
          /\ StatF(f) = want
          /\ (ret.op = "Stat" /\ ret.h = h) => ret.info = want

\* C17's case: Stat after part of the listing of x/ was consumed
C17_Witness ==
  \E h \in DOMAIN handles :
    /\ handles[h].isDir
    /\ handles[h].gKey = <<"x", "/">>
    /\ handles[h].gCalls >= 2
    /\ Len(handles[h].entries) < Len(Snapshot(handles[h]))
    /\ ret.op = "Stat" /\ ret.h = h /\ ret.info.name = <<"x">>

\* a normalised relative directory key: elements that are neither empty nor
\* ".", then exactly one '/'
NormalKey(k) ==
  /\ HasSuffix(k, <<"/">>)
  /\ LET segs == Segments(TrimSuffix(k, <<"/">>))
     IN  \A i \in 1..Len(segs) : segs[i] # <<>> /\ segs[i] # <<".">>

\* C18: after the build every key of dirs is the empty string or a
\* normalised relative path with exactly one trailing '/' (no leading '/',
\* no "." element), and no key of files ends with '/'.
C18_KeysNormalised ==
  built =>
    /\ \A k \in DOMAIN dirs : k = <<>> \/ NormalKey(k)
    /\ \A k \in DOMAIN files : ~HasSuffix(k, <<"/">>)

\* C19: for every key d of dirs and every record of the listing of a handle
\* opened on d, Open(d + name) does not return the not-exist error, and
\* yields a Directory exactly when the record says directory and a File
\* exactly when it does not.
C19_ListingsResolve ==
  built =>
    \A d \in DOMAIN dirs :
      LET list == dirEntries(files, dirs, d)
      IN  \A i \in 1..Len(list) :
            LET r == OpenF(files, dirs, d \o list[i].name, TRUE)
            IN  r.err = "nil" /\ r.h[1].isDir = list[i].isDir

====
